---- MODULE Spec2Model ----
(***************************************************************************)
(* Conversation escalation protocol of the WhatsApp/Dialogflow chatbot     *)
(* (src/index.js) and of its earlier variant without escalation            *)
(* (src/unnamed/part_000).  Text is modelled as sequences of one-character *)
(* strings so that processContent and String.includes are computed as the  *)
(* code computes them.                                                     *)
(***************************************************************************)
EXTENDS Integers, Sequences, FiniteSets, Bags, TLC

VARIABLES pdfChatbot, vectorStore, sheetdbService, running,
          contexts, turns, out, turnsSinceEntry, window, episode, norm

vars == <<pdfChatbot, vectorStore, sheetdbService, running,
          contexts, turns, out, turnsSinceEntry, window, episode, norm>>

(* ---------------- bounds ---------------- *)
\* number of webhook requests that may be suspended on a collaborator at once
MaxInFlight == 2

\* length of the texts given to processContent
MaxLen == 3

\* length of the text before and after the refusal sentence in a completion
MaxPad == 1

Sessions == {"s1", "s2"}

(* ---------------- fixed texts of the source ---------------- *)
Marker ==
  <<"I"," ","d","o"," ","n","o","t"," ","h","a","v","e"," ","e","n","o","u","g","h"," ","i","n","f","o","r","m","a","t","i","o","n">>

ContactRequestMessage ==
  <<"I"," ","c","o","u","l","d","n","'","t"," ","f","i","n","d"," ","a","n"," ","a","n","s","w","e","r"," ","t","o"," ","y","o","u","r"," ","q","u","e","s","t","i","o","n","."," ","C","o","u","l","d"," ","y","o","u"," ","p","l","e","a","s","e"," ","p","r","o","v","i","d","e"," ","y","o","u","r"," ","e","m","a","i","l","?"," ","W","e","'","l","l"," ","g","e","t"," ","b","a","c","k"," ","t","o"," ","y","o","u"," ","w","i","t","h"," ","m","o","r","e"," ","i","n","f","o","r","m","a","t","i","o","n",".">>

FallbackApology ==
  <<"S","o","r","r","y",","," ","I"," ","c","o","u","l","d","n","'","t"," ","p","r","o","c","e","s","s"," ","y","o","u","r"," ","r","e","q","u","e","s","t"," ","r","i","g","h","t"," ","n","o","w",".">>

Greeting ==
  <<"H","i"," ","t","h","e","r","e","!"," ","H","o","w"," ","c","a","n"," ","I"," ","a","s","s","i","s","t"," ","y","o","u"," ","t","o","d","a","y","?">>

Acknowledgement ==
  <<"T","h","a","n","k"," ","y","o","u",","," ","W","e","'","v","e"," ","r","e","c","o","r","d","e","d"," ","y","o","u","r"," ","q","u","e","r","y"," ","a","n","d"," ","w","i","l","l"," ","f","o","l","l","o","w"," ","u","p"," ","v","i","a"," ","e","m","a","i","l",".">>

StorageApology ==
  <<"S","o","r","r","y",","," ","t","h","e","r","e"," ","w","a","s"," ","a","n"," ","i","s","s","u","e"," ","s","a","v","i","n","g"," ","y","o","u","r"," ","i","n","f","o","r","m","a","t","i","o","n","."," ","P","l","e","a","s","e"," ","t","r","y"," ","a","g","a","i","n"," ","l","a","t","e","r",".">>

NoQueryFound ==
  <<"N","o"," ","q","u","e","r","y"," ","f","o","u","n","d">>

NotAvailable ==
  <<"N","/","A">>

ServicesNotInitialized ==
  <<"S","e","r","v","i","c","e","s"," ","n","o","t"," ","i","n","i","t","i","a","l","i","z","e","d">>

ChatbotNotInitialized ==
  <<"C","h","a","t","b","o","t"," ","n","o","t"," ","i","n","i","t","i","a","l","i","z","e","d">>

NoRelevantInformation ==
  <<"S","o","r","r","y",","," ","I"," ","c","o","u","l","d","n","'","t"," ","f","i","n","d"," ","r","e","l","e","v","a","n","t"," ","i","n","f","o","r","m","a","t","i","o","n",".">>

RefusalSentence ==
  <<"I"," ","d","o"," ","n","o","t"," ","h","a","v","e"," ","e","n","o","u","g","h"," ","i","n","f","o","r","m","a","t","i","o","n"," ","t","o"," ","a","n","s","w","e","r"," ","t","h","i","s"," ","q","u","e","s","t","i","o","n",".">>

RefusalOutput ==
  <<"I"," ","d","o"," ","n","o","t"," ","h","a","v","e"," ","e","n","o","u","g","h"," ","i","n","f","o","r","m","a","t","i","o","n"," ","t","o"," ","a","n","s","w","e","r"," ","t","h","i","s"," ","q","u","e","s","t","i","o","n",".","\n","P","l","e","a","s","e"," ","a","s","k"," ","a"," ","d","i","f","f","e","r","e","n","t"," ","q","u","e","s","t","i","o","n"," ","r","e","l","a","t","e","d"," ","t","o"," ","t","h","e"," ","a","v","a","i","l","a","b","l","e"," ","c","o","n","t","e","n","t",".","\n">>

OfficeHoursOutput ==
  <<"O","f","f","i","c","e"," ","h","o","u","r","s",":"," ","9","-","5">>

RefundPolicy ==
  <<"r","e","f","u","n","d"," ","p","o","l","i","c","y">>

WordChars ==
  {"a","b","c","d","e","f","g","h","i","j","k","l","m","n","o","p","q","r","s","t","u","v","w","x","y","z","A","B","C","D","E","F","G","H","I","J","K","L","M","N","O","P","Q","R","S","T","U","V","W","X","Y","Z","0","1","2","3","4","5","6","7","8","9","_"}

(* ---------------- program constants ---------------- *)
\* lifespan given to the awaiting_user_info context
ContextLifespan == 2

StatusOk == 200

StatusServiceUnavailable == 503

(* ---------------- inputs ---------------- *)
QueryTexts == {<<>>, RefundPolicy}

Parameters == {[name |-> "Ana", email |-> "ana@x.com"], [name |-> "", email |-> ""]}

\* instants the clock may show when a record is built (ms since the epoch)
Instants == {0}

Intents ==
  {"Default Welcome Intent", "Default Fallback Intent", "PDF_Query_Intent",
   "Collect_User_Info"}

FallbackIntents == {"Default Fallback Intent", "PDF_Query_Intent"}

(* ---------------- JavaScript values and strings ---------------- *)
JsString(chars) == [type |-> "string", str |-> chars]

\* a value that is not a string (an array of content parts, undefined, ...)
JsObject == [type |-> "object", str |-> <<>>]

\* what the completion collaborator may return as response.content
LlmOutputs == {JsString(RefusalOutput), JsString(OfficeHoursOutput), JsObject}

Whitespace == {" ", "\n", "\t"}

AllowedPunctuation == {".", ",", "!", "?", "(", ")", "-"}

MinOf(S) == CHOOSE i \in S : \A j \in S : i <= j

MaxOf(S) == CHOOSE i \in S : \A j \in S : j <= i

\* String.prototype.trim
Trim(s) ==
  LET ns == {i \in 1..Len(s) : s[i] \notin Whitespace}
  IN  IF ns = {} THEN <<>> ELSE SubSeq(s, MinOf(ns), MaxOf(ns))

\* mutant: runs of whitespace are removed instead of replaced by a space
CollapseWhitespace_Removes(s) == SelectSeq(s, LAMBDA c : c \notin Whitespace)

\* .replace(/\s+/g, ' ')
CollapseWhitespace(s) ==
  LET marked == [i \in 1..Len(s) |->
                   IF s[i] \in Whitespace
                   THEN (IF i > 1 /\ s[i-1] \in Whitespace THEN "drop" ELSE " ")
                   ELSE s[i]]
  IN  SelectSeq(marked, LAMBDA c : c # "drop")

\* mutant: nothing is stripped
StripDisallowed_Nothing(s) == s

\* .replace(/[^\w\s.,!?()-]/g, '')
StripDisallowed(s) ==
  SelectSeq(s, LAMBDA c : c \in WordChars \cup Whitespace \cup AllowedPunctuation)

processContent(content) ==
  IF content.type # "string" \/ content.str = <<>>
  THEN <<>>
  ELSE StripDisallowed(CollapseWhitespace(Trim(content.str)))

\* String.prototype.includes
Includes(s, sub) ==
  \E i \in 1..(Len(s) - Len(sub) + 1) : SubSeq(s, i, i + Len(sub) - 1) = sub

\* Date.prototype.toISOString
ToISOString(ms) ==
  IF ms = 0 THEN "1970-01-01T00:00:00.000Z" ELSE "1970-01-01T00:00:00.001Z"

\* queryPDF once both collaborators have answered:
\* return { answer: processContent(response.content) }
queryPDF == [content \in LlmOutputs |-> [answer |-> processContent(content)]]

\* result.answer.includes("I do not have enough information")
AnswerIncludesMarker ==
  [content \in LlmOutputs |-> Includes(queryPDF[content].answer, Marker)]

(* ---------------- session contexts ---------------- *)
NoContext == [lifespan |-> 0, original_query |-> <<>>]

\* mutant: the context is stored for three turns
AwaitingUserInfo_ThreeTurns(userQuery) ==
  [lifespan |-> 3, original_query |-> userQuery]

\* mutant: the context is stored for a single turn
AwaitingUserInfo_OneTurn(userQuery) ==
  [lifespan |-> 1, original_query |-> userQuery]

\* agent.setContext({name: 'awaiting_user_info', lifespan: 2, parameters: {original_query}})
AwaitingUserInfo(userQuery) ==
  [lifespan |-> ContextLifespan, original_query |-> userQuery]

\* the conversation state of a session
AwaitingContactInfo(s) == contexts[s].lifespan > 0

Answering(s) == contexts[s].lifespan = 0

\* one conversational turn uses up one unit of a context's lifespan; a
\* context whose lifespan is used up is discarded
ExpireOneTurn(c) ==
  IF c.lifespan > 1 THEN [c EXCEPT !.lifespan = @ - 1] ELSE NoContext

\* mutant: no placeholder for an empty query text
UserQuery_NoDefault(queryText) == queryText

\* const userQuery = agent.query || req.body.queryResult.queryText || 'No query found'
UserQuery(queryText) ==
  IF queryText # <<>> THEN queryText ELSE NoQueryFound

\* mutant: no placeholder when there is no stored query
OriginalQuery_NoDefault(c) == c.original_query

\* mutant: the stored query is never found
OriginalQuery_NotFound(c) == NotAvailable

\* agent.getContext('awaiting_user_info')?.parameters?.original_query || 'N/A'
OriginalQuery(c) ==
  IF c.lifespan > 0 /\ c.original_query # <<>> THEN c.original_query ELSE NotAvailable

(* ---------------- requests suspended on a collaborator ---------------- *)
NoParameters == [name |-> "", email |-> ""]

NoRecord == [name |-> "", email |-> "", query |-> <<>>, timestamp |-> ""]

\* a request whose handleFallbackIntent awaits queryPDF
FallbackTurn(s, queryText, pc) ==
  [handler |-> "fallback", session |-> s, queryText |-> queryText,
   userQuery |-> UserQuery(queryText), pc |-> pc,
   parameters |-> NoParameters, record |-> NoRecord]

\* a request whose handleUserInfoIntent awaits addUnresolvedQuery(record)
UserInfoTurn(s, parameters, originalQuery, now) ==
  [handler |-> "userinfo", session |-> s, queryText |-> <<>>,
   userQuery |-> <<>>, pc |-> "storage", parameters |-> parameters,
   record |-> [name |-> parameters.name, email |-> parameters.email,
               query |-> originalQuery, timestamp |-> ToISOString(now)]]

InFlight == BagToSet(turns)

\* the number of requests of session s that are suspended
InFlightOf(s) ==
  BagCardinality([t \in {u \in InFlight : u.session = s} |-> turns[t]])

Suspend(t) == turns (+) SetToBag({t})

Resume(t) == turns (-) SetToBag({t})

\* the HTTP response of the request handled last, and what its handler saw:
\* event names the branch taken, answer is result.answer when queryPDF
\* returned, recorder is how the promise of addUnresolvedQuery settled
NoResponse ==
  [session |-> "", handler |-> "", status |-> 0, reply |-> <<>>,
   event |-> "none", answer |-> <<>>, recorder |-> "none"]

Response(s, handler, status, text, event, answer) ==
  [session |-> s, handler |-> handler, status |-> status, reply |-> text,
   event |-> event, answer |-> answer, recorder |-> "none"]

\* intentMap
HandlerOf(intent) ==
  CASE intent = "Default Welcome Intent" -> "welcome"
    [] intent = "Default Fallback Intent" -> "fallback"
    [] intent = "PDF_Query_Intent" -> "fallback"
    [] intent = "Collect_User_Info" -> "userinfo"

\* mutant: the readiness check tests the chatbot object alone
ServicesInitialized_ChatbotOnly == pdfChatbot

\* if (!pdfChatbot || !sheetdbService)
ServicesInitialized == pdfChatbot /\ sheetdbService

\* the intent was matched for session s: the turn counts against the
\* lifespan of the session's context
TurnMatched(s) ==
  /\ contexts' = [contexts EXCEPT ![s] = ExpireOneTurn(@)]
  /\ turnsSinceEntry' = [turnsSinceEntry EXCEPT
                           ![s] = IF @ < ContextLifespan THEN @ + 1 ELSE @]

\* the session whose turns the observers follow
PairSession == "s1"

\* observers used by the specifications that follow a window of turns or a
\* pair of concurrent turns; Spec leaves them alone
NoWindow == [open |-> FALSE, session |-> "", done |-> 0]

NoOutcome == [kind |-> "pending", content |-> JsObject]

NoLog ==
  [turn |-> [handler |-> "idle"], done |-> FALSE, outcome |-> NoOutcome,
   reply |-> <<>>]

NoEpisode ==
  [stage |-> "idle", base |-> [lifespan |-> 0, original_query |-> <<>>],
   a |-> NoLog, b |-> NoLog,
   final |-> [lifespan |-> 0, original_query |-> <<>>]]

\* no call of processContent being followed
NoCall == [stage |-> "idle", input |-> JsObject, once |-> <<>>, twice |-> <<>>]

Unobserved == UNCHANGED <<window, episode, norm>>

Init ==
  /\ norm = NoCall
  /\ window = NoWindow
  /\ episode = NoEpisode
  /\ pdfChatbot = TRUE
  /\ vectorStore = FALSE
  /\ sheetdbService = FALSE
  /\ running = TRUE
  /\ contexts = [s \in Sessions |-> NoContext]
  /\ turns = EmptyBag
  /\ out = NoResponse
  /\ turnsSinceEntry = [s \in Sessions |-> ContextLifespan]

(* ---------------- startup ---------------- *)
\* loadAndProcessPDF resolves, then sheetdbService is created
StartupCompletes ==
  /\ running /\ ~vectorStore
  /\ vectorStore' = TRUE
  /\ sheetdbService' = TRUE
  /\ UNCHANGED <<pdfChatbot, running, contexts, turns, out, turnsSinceEntry>>

\* loadAndProcessPDF rejects: process.exit(1)
StartupFails ==
  /\ running /\ ~vectorStore
  /\ running' = FALSE
  /\ UNCHANGED <<pdfChatbot, vectorStore, sheetdbService, contexts, turns, out,
                 turnsSinceEntry>>

(* ---------------- POST /dialogflow-webhook ---------------- *)
\* return res.status(503).send('Services not initialized')
WebhookNotReady(s, intent) ==
  /\ running /\ ~ServicesInitialized
  /\ TurnMatched(s)
  /\ out' = Response(s, HandlerOf(intent), StatusServiceUnavailable,
                     ServicesNotInitialized, "not_ready", <<>>)
  /\ UNCHANGED <<pdfChatbot, vectorStore, sheetdbService, running, turns>>

\* mutant: the greeting starts the conversation afresh
handleWelcomeIntent_ClearsContext(s) ==
  /\ running /\ ServicesInitialized
  /\ contexts' = [contexts EXCEPT ![s] = NoContext]
  /\ turnsSinceEntry' = [turnsSinceEntry EXCEPT ![s] = ContextLifespan]
  /\ out' = Response(s, "welcome", StatusOk, Greeting, "welcome", <<>>)
  /\ UNCHANGED <<pdfChatbot, vectorStore, sheetdbService, running, turns>>

handleWelcomeIntent(s) ==
  /\ running /\ ServicesInitialized
  /\ TurnMatched(s)
  /\ out' = Response(s, "welcome", StatusOk, Greeting, "welcome", <<>>)
  /\ UNCHANGED <<pdfChatbot, vectorStore, sheetdbService, running, turns>>

\* handleFallbackIntent up to the first await inside queryPDF
handleFallbackIntent(s, intent, queryText) ==
  /\ running /\ ServicesInitialized
  /\ HandlerOf(intent) = "fallback"
  /\ BagCardinality(turns) < MaxInFlight
  /\ TurnMatched(s)
  /\ IF vectorStore
     THEN /\ turns' = Suspend(FallbackTurn(s, queryText, "embedding"))
          /\ UNCHANGED out
     ELSE /\ out' = Response(s, "fallback", StatusOk, FallbackApology, "retrieval_error", <<>>)
          /\ UNCHANGED turns
  /\ UNCHANGED <<pdfChatbot, vectorStore, sheetdbService, running>>

\* retriever.getRelevantDocuments settles
EmbeddingReturns(t, ok) ==
  /\ running
  /\ t \in InFlight /\ t.handler = "fallback" /\ t.pc = "embedding"
  /\ IF ok
     THEN /\ turns' = Resume(t) (+) SetToBag({[t EXCEPT !.pc = "completion"]})
          /\ UNCHANGED out
     ELSE /\ turns' = Resume(t)
          /\ out' = Response(t.session, "fallback", StatusOk, FallbackApology,
                             "retrieval_error", <<>>)
  /\ UNCHANGED <<pdfChatbot, vectorStore, sheetdbService, running, contexts,
                 turnsSinceEntry>>

\* mutant: a failed completion is treated as an unanswerable query
CompletionFails_Escalates(t) ==
  /\ running
  /\ t \in InFlight /\ t.handler = "fallback" /\ t.pc = "completion"
  /\ turns' = Resume(t)
  /\ out' = Response(t.session, "fallback", StatusOk, ContactRequestMessage,
                     "completion_error", <<>>)
  /\ contexts' = [contexts EXCEPT ![t.session] = AwaitingUserInfo(t.userQuery)]
  /\ turnsSinceEntry' = [turnsSinceEntry EXCEPT ![t.session] = 0]
  /\ UNCHANGED <<pdfChatbot, vectorStore, sheetdbService, running>>

\* llm.invoke rejects
CompletionFails(t) ==
  /\ running
  /\ t \in InFlight /\ t.handler = "fallback" /\ t.pc = "completion"
  /\ turns' = Resume(t)
  /\ out' = Response(t.session, "fallback", StatusOk, FallbackApology, "completion_error", <<>>)
  /\ UNCHANGED <<pdfChatbot, vectorStore, sheetdbService, running, contexts,
                 turnsSinceEntry>>

\* mutant: the query of every answered turn is stored for a follow-up
CompletionReturns_StoresEveryQuery(t, content) ==
  /\ running
  /\ t \in InFlight /\ t.handler = "fallback" /\ t.pc = "completion"
  /\ LET result == queryPDF[content]
         s == t.session
     IN  /\ out' = IF AnswerIncludesMarker[content]
                   THEN Response(s, "fallback", StatusOk, ContactRequestMessage,
                                 "insufficient", result.answer)
                   ELSE Response(s, "fallback", StatusOk, result.answer, "answer",
                                 result.answer)
         /\ contexts' = [contexts EXCEPT ![s] = AwaitingUserInfo(t.userQuery)]
         /\ turnsSinceEntry' = [turnsSinceEntry EXCEPT ![s] = 0]
  /\ turns' = Resume(t)
  /\ UNCHANGED <<pdfChatbot, vectorStore, sheetdbService, running>>

\* mutant: a session that waits for contact info is asked for it again
\* instead of being answered
CompletionReturns_RepeatsContactRequest(t, content) ==
  /\ running
  /\ t \in InFlight /\ t.handler = "fallback" /\ t.pc = "completion"
  /\ LET result == queryPDF[content]
         s == t.session
     IN  IF AnswerIncludesMarker[content]
         THEN /\ out' = Response(s, "fallback", StatusOk, ContactRequestMessage,
                                 "insufficient", result.answer)
              /\ contexts' = [contexts EXCEPT ![s] = AwaitingUserInfo(t.userQuery)]
              /\ turnsSinceEntry' = [turnsSinceEntry EXCEPT ![s] = 0]
         ELSE /\ out' = Response(s, "fallback", StatusOk,
                                 IF AwaitingContactInfo(s)
                                 THEN ContactRequestMessage ELSE result.answer,
                                 "answer", result.answer)
              /\ UNCHANGED <<contexts, turnsSinceEntry>>
  /\ turns' = Resume(t)
  /\ UNCHANGED <<pdfChatbot, vectorStore, sheetdbService, running>>

\* mutant: a session that already waits for contact info keeps the query it
\* stored first
CompletionReturns_KeepsFirstQuery(t, content) ==
  /\ running
  /\ t \in InFlight /\ t.handler = "fallback" /\ t.pc = "completion"
  /\ LET result == queryPDF[content]
         s == t.session
     IN  IF AnswerIncludesMarker[content]
         THEN /\ out' = Response(s, "fallback", StatusOk, ContactRequestMessage,
                                 "insufficient", result.answer)
              /\ contexts' = [contexts EXCEPT ![s] =
                                IF AwaitingContactInfo(s)
                                THEN AwaitingUserInfo(@.original_query)
                                ELSE AwaitingUserInfo(t.userQuery)]
              /\ turnsSinceEntry' = [turnsSinceEntry EXCEPT ![s] = 0]
         ELSE /\ out' = Response(s, "fallback", StatusOk, result.answer, "answer",
                                 result.answer)
              /\ UNCHANGED <<contexts, turnsSinceEntry>>
  /\ turns' = Resume(t)
  /\ UNCHANGED <<pdfChatbot, vectorStore, sheetdbService, running>>

\* mutant: the awaiting context is kept in one place for all sessions
CompletionReturns_SharedContext(t, content) ==
  /\ running
  /\ t \in InFlight /\ t.handler = "fallback" /\ t.pc = "completion"
  /\ LET result == queryPDF[content]
         s == t.session
     IN  IF AnswerIncludesMarker[content]
         THEN /\ out' = Response(s, "fallback", StatusOk, ContactRequestMessage,
                                 "insufficient", result.answer)
              /\ contexts' = [x \in Sessions |-> AwaitingUserInfo(t.userQuery)]
              /\ turnsSinceEntry' = [x \in Sessions |-> 0]
         ELSE /\ out' = Response(s, "fallback", StatusOk, result.answer, "answer",
                                 result.answer)
              /\ UNCHANGED <<contexts, turnsSinceEntry>>
  /\ turns' = Resume(t)
  /\ UNCHANGED <<pdfChatbot, vectorStore, sheetdbService, running>>

\* llm.invoke resolves; the rest of handleFallbackIntent
CompletionReturns(t, content) ==
  /\ running
  /\ t \in InFlight /\ t.handler = "fallback" /\ t.pc = "completion"
  /\ LET result == queryPDF[content]
         s == t.session
     IN  IF AnswerIncludesMarker[content]
         THEN /\ out' = Response(s, "fallback", StatusOk, ContactRequestMessage,
                                 "insufficient", result.answer)
              /\ contexts' = [contexts EXCEPT ![s] = AwaitingUserInfo(t.userQuery)]
              /\ turnsSinceEntry' = [turnsSinceEntry EXCEPT ![s] = 0]
         ELSE /\ out' = Response(s, "fallback", StatusOk, result.answer, "answer", result.answer)
              /\ UNCHANGED <<contexts, turnsSinceEntry>>
  /\ turns' = Resume(t)
  /\ UNCHANGED <<pdfChatbot, vectorStore, sheetdbService, running>>

\* handleUserInfoIntent up to the await of addUnresolvedQuery
handleUserInfoIntent(s, parameters, now) ==
  /\ running /\ ServicesInitialized
  /\ BagCardinality(turns) < MaxInFlight
  /\ TurnMatched(s)
  /\ turns' = Suspend(UserInfoTurn(s, parameters, OriginalQuery(contexts[s]), now))
  /\ UNCHANGED <<pdfChatbot, vectorStore, sheetdbService, running, out>>

\* SheetDBService.addUnresolvedQuery: how its promise settles when
\* this.client.create resolves (ok) or rejects
addUnresolvedQuery(ok) == IF ok THEN "resolved" ELSE "rejected"

\* mutant: the acknowledgement is sent whatever the storage collaborator did
StorageReturns_AlwaysThanks(t, ok) ==
  /\ running
  /\ t \in InFlight /\ t.handler = "userinfo" /\ t.pc = "storage"
  /\ turns' = Resume(t)
  /\ out' = Response(t.session, "userinfo", StatusOk, Acknowledgement,
                     IF ok THEN "stored" ELSE "storage_error", <<>>)
  /\ UNCHANGED <<pdfChatbot, vectorStore, sheetdbService, running, contexts,
                 turnsSinceEntry>>

\* sheetdbService.addUnresolvedQuery settles; the rest of handleUserInfoIntent
StorageReturns(t, ok) ==
  /\ running
  /\ t \in InFlight /\ t.handler = "userinfo" /\ t.pc = "storage"
  /\ turns' = Resume(t)
  /\ LET settled == addUnresolvedQuery(ok)
     IN  out' = [(IF settled = "resolved"
                  THEN Response(t.session, "userinfo", StatusOk, Acknowledgement,
                                "stored", <<>>)
                  ELSE Response(t.session, "userinfo", StatusOk, StorageApology,
                                "storage_error", <<>>))
                 EXCEPT !.recorder = settled]
  /\ UNCHANGED <<pdfChatbot, vectorStore, sheetdbService, running, contexts,
                 turnsSinceEntry>>

Next ==
  \/ StartupCompletes /\ Unobserved
  \/ StartupFails /\ Unobserved
  \/ \E s \in Sessions, intent \in Intents :
        WebhookNotReady(s, intent) /\ Unobserved
  \/ \E s \in Sessions : handleWelcomeIntent(s) /\ Unobserved
  \/ \E s \in Sessions, intent \in FallbackIntents, q \in QueryTexts :
        handleFallbackIntent(s, intent, q) /\ Unobserved
  \/ \E t \in InFlight, ok \in BOOLEAN : EmbeddingReturns(t, ok) /\ Unobserved
  \/ \E t \in InFlight : CompletionFails(t) /\ Unobserved
  \/ \E t \in InFlight, content \in LlmOutputs :
        CompletionReturns(t, content) /\ Unobserved
  \/ \E s \in Sessions, p \in Parameters, now \in Instants :
        handleUserInfoIntent(s, p, now) /\ Unobserved
  \/ \E t \in InFlight, ok \in BOOLEAN : StorageReturns(t, ok) /\ Unobserved

Spec == Init /\ [][Next]_vars

(* ---------------- following the turns after an escalation ---------------- *)
\* A turn of session s, dispatched to handler, has been answered; entered says
\* that it stored the awaiting context.  The window opens when PairSession, in
\* Answering with no other turn under way, enters AwaitingContactInfo; it then
\* counts the turns of that session that are answered, up to ContextLifespan,
\* and stops following the session when contact info is submitted.
TurnAnswered(s, handler, entered) ==
  window' =
    IF /\ entered /\ s = PairSession /\ Answering(s) /\ InFlightOf(s) = 1
       /\ ~window.open \/ window.done = ContextLifespan
    THEN [open |-> TRUE, session |-> s, done |-> 0]
    ELSE IF window.open /\ window.done = ContextLifespan
    THEN NoWindow
    ELSE IF window.open /\ window.session = s
    THEN (IF handler = "userinfo" THEN NoWindow
                                  ELSE [window EXCEPT !.done = @ + 1])
    ELSE window

Next_window ==
  \/ StartupCompletes /\ Unobserved
  \/ StartupFails /\ Unobserved
  \/ \E s \in Sessions, intent \in Intents :
        /\ WebhookNotReady(s, intent)
        /\ TurnAnswered(s, HandlerOf(intent), FALSE) /\ UNCHANGED <<episode, norm>>
  \/ \E s \in Sessions :
        /\ handleWelcomeIntent(s)
        /\ TurnAnswered(s, "welcome", FALSE) /\ UNCHANGED <<episode, norm>>
  \/ \E s \in Sessions, intent \in FallbackIntents, q \in QueryTexts :
        /\ handleFallbackIntent(s, intent, q)
        /\ IF vectorStore THEN UNCHANGED window
                          ELSE TurnAnswered(s, "fallback", FALSE)
        /\ UNCHANGED <<episode, norm>>
  \/ \E t \in InFlight, ok \in BOOLEAN :
        /\ EmbeddingReturns(t, ok)
        /\ IF ok THEN UNCHANGED window
                 ELSE TurnAnswered(t.session, "fallback", FALSE)
        /\ UNCHANGED <<episode, norm>>
  \/ \E t \in InFlight :
        /\ CompletionFails(t)
        /\ TurnAnswered(t.session, "fallback", FALSE) /\ UNCHANGED <<episode, norm>>
  \/ \E t \in InFlight, content \in LlmOutputs :
        /\ CompletionReturns(t, content)
        /\ TurnAnswered(t.session, "fallback", AnswerIncludesMarker[content])
        /\ UNCHANGED <<episode, norm>>
  \/ \E s \in Sessions, p \in Parameters, now \in Instants :
        handleUserInfoIntent(s, p, now) /\ Unobserved
  \/ \E t \in InFlight, ok \in BOOLEAN :
        /\ StorageReturns(t, ok)
        /\ TurnAnswered(t.session, "userinfo", FALSE) /\ UNCHANGED <<episode, norm>>

Spec_window == Init /\ [][Next_window]_vars

(* ---------------- following two concurrent turns of one session ---------- *)
TurnLog(t) == [turn |-> t, done |-> FALSE, outcome |-> NoOutcome, reply |-> <<>>]

Outcome(kind, content) == [kind |-> kind, content |-> content]

\* an episode that has been judged is forgotten at the next step
Current == IF episode.stage = "closed" THEN NoEpisode ELSE episode

\* a request is suspended as turn t; an idle observer may start an episode
\* with it when nothing else is under way (base is the context it met), and
\* the next request suspended while it is under way becomes the second turn
TurnSuspended(t, track) ==
  episode' =
    CASE Current.stage = "idle" ->
           IF track /\ turns = EmptyBag
           THEN [NoEpisode EXCEPT !.stage = "one", !.base = contexts[t.session],
                                  !.a = TurnLog(t)]
           ELSE NoEpisode
      [] Current.stage = "one" ->
           [Current EXCEPT !.stage = "two", !.b = TurnLog(t)]
      [] OTHER -> NoEpisode

\* a turn answered without suspending ends the episode: it is not a pair
AtomicTurn == episode' = NoEpisode

\* the suspended turn t goes on as t2
TurnResumed(t, t2) ==
  episode' =
    IF Current.stage = "idle" THEN NoEpisode
    ELSE IF Current.a.turn = t /\ ~Current.a.done
    THEN [Current EXCEPT !.a.turn = t2]
    ELSE [Current EXCEPT !.b.turn = t2]

\* the suspended turn t is answered with reply after its collaborator's outcome
TurnFinished(t, outcome, reply) ==
  LET log(l) == [l EXCEPT !.done = TRUE, !.outcome = outcome, !.reply = reply]
  IN  episode' =
        CASE Current.stage = "two" ->
               LET e == IF Current.a.turn = t /\ ~Current.a.done
                        THEN [Current EXCEPT !.a = log(@)]
                        ELSE [Current EXCEPT !.b = log(@)]
               IN  IF e.a.done /\ e.b.done
                   THEN [e EXCEPT !.stage = "closed",
                                  !.final = contexts'[PairSession]]
                   ELSE e
          [] OTHER -> NoEpisode

\* what the turn of a log does when it runs alone on context c, with the
\* inputs and the collaborator outcomes the log holds
SerialTurn(c, l) ==
  IF l.turn.handler = "fallback"
  THEN IF l.outcome.kind = "content" /\ AnswerIncludesMarker[l.outcome.content]
       THEN [context |-> AwaitingUserInfo(UserQuery(l.turn.queryText)),
             reply |-> ContactRequestMessage, record |-> NoRecord]
       ELSE [context |-> ExpireOneTurn(c),
             reply |-> IF l.outcome.kind = "content"
                       THEN queryPDF[l.outcome.content].answer
                       ELSE FallbackApology,
             record |-> NoRecord]
  ELSE [context |-> ExpireOneTurn(c),
        reply |-> IF l.outcome.kind = "stored" THEN Acknowledgement
                                               ELSE StorageApology,
        record |-> [l.turn.record EXCEPT !.query = OriginalQuery(c)]]

\* the episode's replies, records and final context are those of first, then
\* second, run one after the other
SerialOrder(e, first, second) ==
  LET r1 == SerialTurn(e.base, first)
      r2 == SerialTurn(r1.context, second)
  IN  /\ first.reply = r1.reply /\ first.turn.record = r1.record
      /\ second.reply = r2.reply /\ second.turn.record = r2.record
      /\ e.final = r2.context

Next_pair ==
  \/ StartupCompletes /\ Unobserved
  \/ StartupFails /\ Unobserved
  \/ \E intent \in Intents :
        /\ WebhookNotReady(PairSession, intent)
        /\ AtomicTurn /\ UNCHANGED <<window, norm>>
  \/ /\ handleWelcomeIntent(PairSession)
     /\ AtomicTurn /\ UNCHANGED <<window, norm>>
  \/ \E intent \in FallbackIntents, q \in QueryTexts, track \in BOOLEAN :
        /\ handleFallbackIntent(PairSession, intent, q)
        /\ IF vectorStore
           THEN TurnSuspended(FallbackTurn(PairSession, q, "embedding"), track)
           ELSE AtomicTurn
        /\ UNCHANGED <<window, norm>>
  \/ \E t \in InFlight, ok \in BOOLEAN :
        /\ EmbeddingReturns(t, ok)
        /\ IF ok
           THEN TurnResumed(t, [t EXCEPT !.pc = "completion"])
           ELSE TurnFinished(t, Outcome("retrieval_error", JsObject), out'.reply)
        /\ UNCHANGED <<window, norm>>
  \/ \E t \in InFlight :
        /\ CompletionFails(t)
        /\ TurnFinished(t, Outcome("completion_error", JsObject), out'.reply)
        /\ UNCHANGED <<window, norm>>
  \/ \E t \in InFlight, content \in LlmOutputs :
        /\ CompletionReturns(t, content)
        /\ TurnFinished(t, Outcome("content", content), out'.reply)
        /\ UNCHANGED <<window, norm>>
  \/ \E p \in Parameters, now \in Instants, track \in BOOLEAN :
        /\ handleUserInfoIntent(PairSession, p, now)
        /\ TurnSuspended(UserInfoTurn(PairSession, p,
                                      OriginalQuery(contexts[PairSession]), now),
                         track)
        /\ UNCHANGED <<window, norm>>
  \/ \E t \in InFlight, ok \in BOOLEAN :
        /\ StorageReturns(t, ok)
        /\ TurnFinished(t, Outcome(IF ok THEN "stored" ELSE "storage_error",
                                   JsObject), out'.reply)
        /\ UNCHANGED <<window, norm>>

Spec_pair == Init /\ [][Next_pair]_vars

(* ---------------- src/unnamed/part_000: the server without escalation ---- *)
\* loadAndProcessPDF resolves; this server has no sheetdbService
StartupCompletes_part000 ==
  /\ running /\ ~vectorStore
  /\ vectorStore' = TRUE
  /\ UNCHANGED <<pdfChatbot, sheetdbService, running, contexts, turns, out,
                 turnsSinceEntry>>

\* if (!pdfChatbot) return res.status(503).send('Chatbot not initialized')
NotInitialized_part000(s, intent) ==
  Response(s, HandlerOf(intent), StatusServiceUnavailable, ChatbotNotInitialized,
           "not_ready", <<>>)

handleWelcomeIntent_part000(s) ==
  /\ running
  /\ TurnMatched(s)
  /\ out' = IF ~pdfChatbot
            THEN NotInitialized_part000(s, "Default Welcome Intent")
            ELSE Response(s, "welcome", StatusOk, Greeting, "welcome", <<>>)
  /\ UNCHANGED <<pdfChatbot, vectorStore, sheetdbService, running, turns>>

\* handleFallbackIntent up to the first await inside queryPDF; queryPDF throws
\* 'PDF not loaded' while vectorStore is null, which the handler catches
handleFallbackIntent_part000(s, intent, queryText) ==
  /\ running
  /\ HandlerOf(intent) = "fallback"
  /\ BagCardinality(turns) < MaxInFlight
  /\ TurnMatched(s)
  /\ IF ~pdfChatbot
     THEN /\ out' = NotInitialized_part000(s, intent)
          /\ UNCHANGED turns
     ELSE IF ~vectorStore
     THEN /\ out' = Response(s, "fallback", StatusOk, FallbackApology,
                             "retrieval_error", <<>>)
          /\ UNCHANGED turns
     ELSE /\ turns' = Suspend(FallbackTurn(s, queryText, "embedding"))
          /\ UNCHANGED out
  /\ UNCHANGED <<pdfChatbot, vectorStore, sheetdbService, running>>

\* llm.invoke resolves:
\* agent.add(result.answer || 'Sorry, I couldn\'t find relevant information.')
CompletionReturns_part000(t, content) ==
  /\ running
  /\ t \in InFlight /\ t.handler = "fallback" /\ t.pc = "completion"
  /\ LET result == queryPDF[content]
     IN  out' = Response(t.session, "fallback", StatusOk,
                         IF result.answer # <<>> THEN result.answer
                                                 ELSE NoRelevantInformation,
                         "answer", result.answer)
  /\ turns' = Resume(t)
  /\ UNCHANGED <<pdfChatbot, vectorStore, sheetdbService, running, contexts,
                 turnsSinceEntry>>

Next_part000 ==
  \/ StartupCompletes_part000 /\ Unobserved
  \/ StartupFails /\ Unobserved
  \/ \E s \in Sessions : handleWelcomeIntent_part000(s) /\ Unobserved
  \/ \E s \in Sessions, intent \in FallbackIntents, q \in QueryTexts :
        handleFallbackIntent_part000(s, intent, q) /\ Unobserved
  \/ \E t \in InFlight, ok \in BOOLEAN : EmbeddingReturns(t, ok) /\ Unobserved
  \/ \E t \in InFlight : CompletionFails(t) /\ Unobserved
  \/ \E t \in InFlight, content \in LlmOutputs :
        CompletionReturns_part000(t, content) /\ Unobserved

Spec_part000 == Init /\ [][Next_part000]_vars

(* ---------------- processContent on its own ---------------- *)
\* characters of the texts: a word character, two kinds of whitespace, an
\* allowed punctuation mark and a character the last replace removes
NormalizerAlphabet == {"a", " ", "\n", ".", "@"}

Texts(n) == UNION {[1..k -> NormalizerAlphabet] : k \in 0..n}

\* what processContent may be given: short texts, completions that contain
\* the refusal sentence of the prompt, and a value that is not a string
NormalizerInputs ==
  {JsString(x) : x \in Texts(MaxLen)}
    \cup {JsString(p \o RefusalSentence \o q) : p, q \in Texts(MaxPad)}
    \cup {JsObject}

Init_normalize ==
  /\ norm \in {[stage |-> "input", input |-> x, once |-> <<>>, twice |-> <<>>] :
                 x \in NormalizerInputs}
  /\ window = NoWindow
  /\ episode = NoEpisode
  /\ pdfChatbot = TRUE
  /\ vectorStore = FALSE
  /\ sheetdbService = FALSE
  /\ running = TRUE
  /\ contexts = [s \in Sessions |-> NoContext]
  /\ turns = EmptyBag
  /\ out = NoResponse
  /\ turnsSinceEntry = [s \in Sessions |-> ContextLifespan]

\* processContent(pdfData.text), processContent(response.content)
Normalize ==
  /\ norm.stage = "input"
  /\ norm' = [norm EXCEPT !.stage = "once", !.once = processContent(norm.input)]
  /\ UNCHANGED <<pdfChatbot, vectorStore, sheetdbService, running, contexts,
                 turns, out, turnsSinceEntry, window, episode>>

\* processContent(doc.pageContent) on a text that processContent produced
NormalizeAgain ==
  /\ norm.stage = "once"
  /\ norm' = [norm EXCEPT !.stage = "twice",
                          !.twice = processContent(JsString(norm.once))]
  /\ UNCHANGED <<pdfChatbot, vectorStore, sheetdbService, running, contexts,
                 turns, out, turnsSinceEntry, window, episode>>

Next_normalize == Normalize \/ NormalizeAgain

Spec_normalize == Init_normalize /\ [][Next_normalize]_vars

(* ---------------- steps of a request, as seen from outside ---------------- *)
\* the suspended request t is answered in this step
Finishes(t) == t \in InFlight /\ turns' = Resume(t)

\* a request is suspended as turn t in this step
Begins(t) == turns' = Suspend(t)

\* the sessions on whose behalf this step ran
ActingSessions ==
  IF turns' = turns
  THEN (IF out' # out \/ contexts' # contexts THEN {out'.session} ELSE {})
  ELSE {t.session : t \in {u \in InFlight \cup BagToSet(turns') :
                             CopiesIn(u, turns) # CopiesIn(u, turns')}}

\* a Welcome-intent request of session s is answered in this step
WelcomeAnswered(s) ==
  /\ out'.session = s /\ out'.handler = "welcome"
  /\ turns' = turns
  /\ out' # out \/ contexts' # contexts

\* a Collect_User_Info request of session s is received in this step: its
\* handler reaches the storage call, or the readiness check turns it away
ContactInfoReceived(s) ==
  \/ \E u \in BagToSet(turns') :
        u.handler = "userinfo" /\ u.session = s /\ Begins(u)
  \/ /\ out' # out
     /\ out'.session = s /\ out'.handler = "userinfo" /\ out'.event = "not_ready"

(* ---------------- claims ---------------- *)
\* C10: when two turns of one session have been under way at the same time,
\* their replies, their records and the context they leave are those of the
\* two turns run one after the other, in one order or the other.
C10_ConcurrentTurnsSerializable ==
  episode.stage = "closed"
  => \/ SerialOrder(episode, episode.a, episode.b)
     \/ SerialOrder(episode, episode.b, episode.a)

\* C1 as stated: a question-answering turn of a session in Answering whose
\* answer contains the marker ends with remainingTurns = 2, originalQuery
\* equal to the turn's query text and the contact-request reply.
C1_OriginalQueryIsQueryText ==
  [][\A t \in InFlight :
       (Finishes(t) /\ t.handler = "fallback" /\ out'.event = "insufficient"
          /\ Answering(t.session))
       => /\ contexts'[t.session].lifespan = 2
          /\ contexts'[t.session].original_query = t.queryText
          /\ out'.reply = ContactRequestMessage]_vars

\* C1 amended: the same, with originalQuery equal to the turn's query text
\* when that text is not empty and to 'No query found' when it is empty.
C1_EscalationEntersAwaiting ==
  [][\A t \in InFlight :
       (Finishes(t) /\ t.handler = "fallback" /\ out'.event = "insufficient"
          /\ Answering(t.session))
       => /\ AwaitingContactInfo(t.session)'
          /\ contexts'[t.session].lifespan = 2
          /\ contexts'[t.session].original_query =
               (IF t.queryText = <<>> THEN NoQueryFound ELSE t.queryText)
          /\ out'.session = t.session
          /\ out'.reply = ContactRequestMessage]_vars

\* C1 witness: an escalation of an empty query text has just been answered.
C1_Witness ==
  /\ out.event = "insufficient" /\ Includes(out.answer, Marker)
  /\ out.reply = ContactRequestMessage
  /\ contexts[out.session] = [lifespan |-> 2, original_query |-> NoQueryFound]

\* C2 as stated: a contact-info turn of a session in AwaitingContactInfo
\* leaves the session in Answering with no awaiting context, whether the
\* storage collaborator succeeded or failed.
C2_ContactInfoClearsContext ==
  [][\A t \in InFlight :
       (Finishes(t) /\ t.handler = "userinfo" /\ AwaitingContactInfo(t.session))
       => contexts'[t.session] = NoContext]_vars

\* C3: the record handed to the recorder by a contact-info turn taken in
\* AwaitingContactInfo carries the stored originalQuery, the turn's name and
\* email, and a non-empty timestamp.
C3_RecordCarriesStoredQuery ==
  [][\A t \in BagToSet(turns') :
       (Begins(t) /\ t.handler = "userinfo" /\ AwaitingContactInfo(t.session))
       => /\ t.record.query = contexts[t.session].original_query
          /\ t.record.name = t.parameters.name
          /\ t.record.email = t.parameters.email
          /\ t.record.timestamp # ""]_vars

\* C3 witness: a record for "refund policy" is with the storage collaborator.
C3_Witness ==
  \E t \in InFlight :
    /\ t.handler = "userinfo" /\ t.pc = "storage"
    /\ t.record = [name |-> "Ana", email |-> "ana@x.com", query |-> RefundPolicy,
                   timestamp |-> "1970-01-01T00:00:00.000Z"]

\* C4 as stated: once 2 further turns of a session that entered
\* AwaitingContactInfo have been answered and none of them submitted contact
\* info, the session holds no awaiting context.
C4_ContextGoneAfterTwoTurns ==
  (window.open /\ window.done = 2) => contexts[window.session] = NoContext

\* C4 amended: once 2 further turns of a session have been received since
\* its awaiting context was last stored, the session holds no awaiting
\* context, whatever those turns were.
C4_ContextGoneTwoTurnsAfterStore ==
  \A s \in Sessions : turnsSinceEntry[s] >= 2 => contexts[s] = NoContext

\* C4 witness: a session entered AwaitingContactInfo, 2 further turns of it
\* without contact info were answered, and its context is gone.
C4_Witness ==
  /\ window.open /\ window.done = 2
  /\ turnsSinceEntry[window.session] = 2
  /\ contexts[window.session] = NoContext

\* C5: a session in AwaitingContactInfo carries a non-empty originalQuery and
\* remainingTurns > 0.
C5_AwaitingCarriesQuery ==
  \A s \in Sessions :
    AwaitingContactInfo(s)
    => contexts[s].original_query # <<>> /\ contexts[s].lifespan > 0

\* C5 witness: two sessions wait for contact info, one escalated from an empty
\* query text, one with a single turn left.
C5_Witness ==
  /\ contexts["s1"] = [lifespan |-> 1, original_query |-> NoQueryFound]
  /\ contexts["s2"] = [lifespan |-> 2, original_query |-> RefundPolicy]

\* C6: a contact-info turn replies with the acknowledgement when the storage
\* collaborator succeeds and with the apology when it fails, and in both cases
\* completes with status 200.
C6_ContactInfoReply ==
  [][\A t \in InFlight :
       (Finishes(t) /\ t.handler = "userinfo")
       => /\ out'.session = t.session /\ out'.status = 200
          /\ out'.event \in {"stored", "storage_error"}
          /\ out'.event = "stored" => out'.reply = Acknowledgement
          /\ out'.event = "storage_error" => out'.reply = StorageApology]_vars

\* C6 witness: the storage collaborator failed and the apology was sent.
C6_Witness ==
  /\ out.handler = "userinfo" /\ out.event = "storage_error"
  /\ out.reply = StorageApology /\ out.status = 200

\* C7: a question-answering turn in which retrieval or completion fails
\* replies with the fixed apology and leaves every context as it was, so no
\* awaiting context is created and a session in Answering stays there.
C7_FailureKeepsAnswering ==
  [][\A t \in InFlight :
       (Finishes(t) /\ t.handler = "fallback"
          /\ out'.event \in {"retrieval_error", "completion_error"})
       => /\ out'.session = t.session
          /\ out'.reply = FallbackApology
          /\ contexts' = contexts
          /\ Answering(t.session) => Answering(t.session)']_vars

\* C7 witness: the completion collaborator failed for a session in Answering.
C7_Witness ==
  /\ out.handler = "fallback" /\ out.event = "completion_error"
  /\ out.reply = FallbackApology
  /\ Answering(out.session)

\* C8: while the index is not built, no question-answering request is kept
\* waiting for the build, and every question-answering request answered so far
\* got the 'not ready' outcome (status 503), not an answer and not the reply
\* of a failed query.
C8_NotReadyBeforeBuild ==
  ~vectorStore
  => /\ \A t \in InFlight : t.handler # "fallback"
     /\ out.handler = "fallback"
        => /\ out.event = "not_ready"
           /\ out.status = 503
           /\ out.reply # FallbackApology

\* C9: a step changes only the context of the session it runs for, and a
\* contact-info turn reads only its own session's context.
C9_SessionIsolation ==
  [][/\ \A s \in Sessions : contexts'[s] # contexts[s] => s \in ActingSessions
     /\ \A t \in BagToSet(turns') :
          (Begins(t) /\ t.handler = "userinfo")
          => t.record.query =
               (IF contexts[t.session].lifespan > 0
                THEN contexts[t.session].original_query ELSE NotAvailable)]_vars

\* C9 witness: s1 waits for contact info with a turn suspended, s2 has no
\* context and sends its contact info, which is recorded without a query.
C9_Witness ==
  /\ AwaitingContactInfo("s1") /\ Answering("s2")
  /\ \E t \in InFlight : t.session = "s1" /\ t.handler = "fallback"
  /\ \E u \in InFlight :
       u.session = "s2" /\ u.handler = "userinfo" /\ u.record.query = NotAvailable

\* C11: applying processContent to its own output changes nothing.
C11_NormalizeIdempotent ==
  norm.stage = "twice" => norm.twice = norm.once

\* C15: the output of processContent holds only word characters, whitespace
\* and . , ! ? ( ) - and is empty for an empty or non-string input.
C15_OutputOnlyAllowed ==
  norm.stage \in {"once", "twice"}
  => /\ \A i \in 1..Len(norm.once) :
          norm.once[i] \in WordChars \cup {" ", "\n", "\t"}
                             \cup {".", ",", "!", "?", "(", ")", "-"}
     /\ (norm.input.type # "string" \/ norm.input.str = <<>>) => norm.once = <<>>

\* C15 witness: a text with a disallowed character has been normalized.
C15_Witness ==
  /\ norm.stage = "once"
  /\ norm.input = JsString(<<"a", "@", ".">>)
  /\ norm.once = <<"a", ".">>

\* C19: when the completion's raw output contains the refusal sentence, the
\* normalized answer contains the marker the fallback handler tests for.
C19_NormalizationKeepsMarker ==
  (norm.stage \in {"once", "twice"} /\ norm.input.type = "string"
     /\ Includes(norm.input.str, RefusalSentence))
  => Includes(norm.once, Marker)

\* C19 witness: a completion with the refusal sentence between a disallowed
\* character and a line break has been normalized.
C19_Witness ==
  /\ norm.stage = "once"
  /\ norm.input = JsString(<<"@">> \o RefusalSentence \o <<"\n">>)
  /\ norm.once = RefusalSentence

\* C12: a question-answering turn whose answer does not contain the marker
\* is answered with exactly the synthesized answer and changes no context;
\* received in Answering, it changes no context on receipt either.
C12_AnswerLeavesContext ==
  [][/\ \A t \in InFlight :
          (Finishes(t) /\ t.handler = "fallback" /\ out'.event = "answer")
          => /\ out'.session = t.session
             /\ \E content \in LlmOutputs :
                  /\ out'.reply = queryPDF[content].answer
                  /\ ~AnswerIncludesMarker[content]
             /\ out'.reply = out'.answer
             /\ contexts' = contexts
             /\ Answering(t.session) => Answering(t.session)'
     /\ \A t \in BagToSet(turns') :
          (Begins(t) /\ t.handler = "fallback" /\ Answering(t.session))
          => contexts' = contexts]_vars

\* C12 witness: a session in Answering got the synthesized answer as reply.
C12_Witness ==
  /\ out.handler = "fallback" /\ out.event = "answer"
  /\ out.reply = processContent(JsString(OfficeHoursOutput))
  /\ Answering(out.session)

C14_FailedStartupServesNothing ==
  ~running
  => /\ InFlight = {}
     /\ out.event \in {"none", "not_ready"}
     /\ out.reply \in {<<>>, ServicesNotInitialized}
     /\ \A s \in Sessions : contexts[s] = NoContext

\* C14 witness: a request received before the failure was turned away, then
\* startup failed.
C14_Witness ==
  /\ ~running
  /\ out.event = "not_ready" /\ out.status = 503

\* C16: the reply of a question-answering turn is decided by the outcome of
\* the retrieval and completion flow alone, whatever context the session
\* holds: the contact request when the answer contains the marker, the
\* answer when it does not, the apology when the flow failed.
C16_ReplyIgnoresContext ==
  [][\A t \in InFlight :
       (Finishes(t) /\ t.handler = "fallback")
       => /\ out'.event \in {"insufficient", "answer", "retrieval_error",
                             "completion_error"}
          /\ out'.event \in {"insufficient", "answer"}
             => (out'.event = "insufficient" <=> Includes(out'.answer, Marker))
          /\ out'.reply =
               (CASE out'.event = "insufficient" -> ContactRequestMessage
                  [] out'.event = "answer" -> out'.answer
                  [] OTHER -> FallbackApology)]_vars

\* C16 witness: a session that waits for contact info asked a question and
\* got its answer.
C16_Witness ==
  /\ out.handler = "fallback" /\ out.event = "answer"
  /\ out.reply = processContent(JsString(OfficeHoursOutput))
  /\ AwaitingContactInfo(out.session)
  /\ turns = EmptyBag

\* C17: addUnresolvedQuery never throws: a failure of the storage
\* collaborator reaches its caller as a result value, not as a rejection.
C17_RecorderNeverThrows ==
  out.recorder # "rejected"

\* C18: at every moment at most one collaborator call is outstanding for a
\* session.
C18_OneOutstandingCallPerSession ==
  \A s \in Sessions : InFlightOf(s) <= 1

\* C20: a question-answering turn whose answer contains the marker, answered
\* while its session waits for contact info, stores its own query in place of
\* the stored one with remainingTurns 2, and a contact-info turn records the
\* query stored last.
C20_ReescalationReplacesQuery ==
  [][/\ \A t \in InFlight :
          (t.handler = "fallback" /\ out'.event = "insufficient"
             /\ AwaitingContactInfo(t.session) /\ Finishes(t))
          => contexts'[t.session] =
               [lifespan |-> 2,
                original_query |-> IF t.queryText = <<>> THEN NoQueryFound
                                                        ELSE t.queryText]
     /\ \A u \in BagToSet(turns') :
          (u.handler = "userinfo" /\ AwaitingContactInfo(u.session) /\ Begins(u))
          => u.record.query = contexts[u.session].original_query]_vars

\* C20 witness: two question-answering turns of one session overlapped and
\* both were answered with the contact request; the one answered last found
\* the session waiting with the other's query ('No query found') and left it
\* waiting for 2 turns with its own.
C20_Witness ==
  /\ episode.stage = "closed"
  /\ episode.a.turn.handler = "fallback" /\ episode.a.turn.queryText = RefundPolicy
  /\ episode.b.turn.handler = "fallback" /\ episode.b.turn.queryText = <<>>
  /\ episode.a.reply = ContactRequestMessage
  /\ episode.b.reply = ContactRequestMessage
  /\ contexts[PairSession] = [lifespan |-> 2, original_query |-> RefundPolicy]

\* C21 as stated: a contact-info turn received when its session has no
\* awaiting context hands one record to the recorder, with query 'N/A'.
C21_ContactInfoAlwaysRecords ==
  [][\A s \in Sessions :
       (ContactInfoReceived(s) /\ Answering(s))
       => \E u \in BagToSet(turns') :
            /\ u.handler = "userinfo" /\ u.session = s /\ Begins(u)
            /\ u.record.query = NotAvailable]_vars

\* C21 amended: once the services are initialized, a contact-info turn hands
\* exactly one record to the recorder, with query 'N/A' when its session has
\* no awaiting context, and the query of a record is never empty; before
\* that the request is turned away with status 503 and no record.
C21_RecordWithoutContext ==
  [][\A s \in Sessions :
       ContactInfoReceived(s)
       => IF ServicesInitialized
          THEN \E u \in BagToSet(turns') :
                 /\ u.handler = "userinfo" /\ u.session = s /\ Begins(u)
                 /\ BagCardinality(turns') = BagCardinality(turns) + 1
                 /\ Answering(s) => u.record.query = NotAvailable
                 /\ u.record.query # <<>>
          ELSE /\ turns' = turns
               /\ out'.status = 503]_vars

\* C21 witness: a session with no awaiting context sent its contact info,
\* and the one record with the recorder has query 'N/A'.
C21_Witness ==
  /\ BagCardinality(turns) = 1
  /\ \E u \in InFlight :
       /\ u.handler = "userinfo" /\ u.pc = "storage"
       /\ contexts[u.session] = NoContext
       /\ u.record = [name |-> "Ana", email |-> "ana@x.com",
                      query |-> NotAvailable,
                      timestamp |-> "1970-01-01T00:00:00.000Z"]

\* C22: the reply of a question-answering turn is never the empty string.
C22_ReplyNeverEmpty ==
  out.handler = "fallback" => out.reply # <<>>

====
